---- MODULE Spec2Model ----
(***************************************************************************)
(* Model of src/json2bpf.py: the unsigned varint writer, the length-       *)
(* prefixed string writer, encode_profile_content (payload, gzip stream,   *)
(* two-byte header) and the command-line driver main().                    *)
(*                                                                         *)
(* Bytes are naturals 0..255, a BytesIO is the sequence of bytes written   *)
(* to it so far, and a Python str is the sequence of its Unicode code      *)
(* points (scalar values only: str.encode('utf-8') raises on a lone        *)
(* surrogate).                                                             *)
(***************************************************************************)
EXTENDS Integers, Sequences, FiniteSets, TLC

VARIABLES
    \* ---- one call of write_uvarint / write_varbin_string (unit harness)
    t_pc,               \* "idle" | "call" | "returned"
    t_arg,              \* the value argument (an integer or a text)
    t_fn,               \* which function the harness calls
    t_before,           \* contents of the BytesIO before the call
    t_writer,           \* the BytesIO handed to the function
    t_ret,              \* what the function returned, if anything
    \* ---- encode_profile_content
    profile,            \* the ProfileContent being encoded
    pc,                 \* position inside encode_profile_content
    buffer,             \* line 50
    compressed_buffer,  \* line 53
    inner_buffer,       \* line 56
    gzip_writer,        \* the gzip.GzipFile of line 55
    ret,                \* value returned at line 69, if any
    prev_ret,           \* value returned by the previous invocation, if any
    calls,              \* number of invocations started
    now,                \* int(time.time()), the wall clock in seconds
    \* ---- main()
    m_pc,               \* position inside main
    args,               \* argparse namespace
    fs,                 \* the file system: path -> file record
    local,              \* main's local variables
    stdout,             \* lines printed to standard output
    stderr,             \* lines printed to standard error
    exit_code           \* process exit status, once exited

t_vars == <<t_pc, t_fn, t_arg, t_before, t_writer, t_ret>>
e_vars == <<profile, pc, buffer, compressed_buffer, inner_buffer, gzip_writer,
            ret, prev_ret, calls>>
m_vars == <<m_pc, args, fs, local, stdout, stderr, exit_code>>
vars == <<t_vars, e_vars, now, m_vars>>

None == "None"

(***************************************************************************)
(* Bounds of the model.                                                    *)
(***************************************************************************)
\* largest integer handed to write_uvarint in the unit harness
MaxValue == 1500
\* longest text (in code points) enumerated for write_varbin_string
MaxTextLen == 2
\* seconds the clock may advance during the encoder runs
MaxClock == 2
\* invocations of encode_profile_content on the same record
MaxCalls == 2

(***************************************************************************)
(* Byte-level helpers: struct.pack and str.encode.                         *)
(***************************************************************************)
RECURSIVE Pow(_, _)
Pow(b, n) == IF n = 0 THEN 1 ELSE b * Pow(b, n - 1)

\* struct.pack('B', v): one unsigned byte
pack_B(v) == <<v % 256>>

\* struct.pack('>i', v): 4 bytes, big-endian, two's complement.
\* (\div and % floor, so a negative v yields its two's complement bytes.)
pack_i(v) == [k \in 1..4 |-> (v \div Pow(256, 4 - k)) % 256]

\* struct.pack('>q', v): 8 bytes, big-endian, two's complement.  The model
\* draws v from the 32-bit range, so the upper four bytes are the sign
\* extension.
pack_q(v) == [k \in 1..4 |-> IF v < 0 THEN 255 ELSE 0] \o pack_i(v)

\* struct.pack('?', b): one byte, 0x00 or 0x01
pack_bool(b) == <<IF b THEN 1 ELSE 0>>

\* One code point as UTF-8 (str.encode('utf-8') for a single character).
utf8_char(c) ==
    IF c < 128 THEN <<c>>
    ELSE IF c < 2048 THEN <<192 + (c \div 64), 128 + (c % 64)>>
    ELSE IF c < 65536 THEN <<224 + (c \div 4096), 128 + ((c \div 64) % 64),
                             128 + (c % 64)>>
    ELSE <<240 + (c \div 262144), 128 + ((c \div 4096) % 64),
           128 + ((c \div 64) % 64), 128 + (c % 64)>>

\* value.encode('utf-8'): the characters' encodings, concatenated (by
\* halves, to keep the evaluation shallow).
RECURSIVE utf8_encode(_)
utf8_encode(s) ==
    IF s = <<>> THEN <<>>
    ELSE IF Len(s) = 1 THEN utf8_char(s[1])
    ELSE LET mid == Len(s) \div 2
         IN utf8_encode(SubSeq(s, 1, mid)) \o utf8_encode(SubSeq(s, mid + 1, Len(s)))

(***************************************************************************)
(* write_uvarint (lines 32-39).                                            *)
(***************************************************************************)
\* The while loop of lines 34-37 followed by lines 38-39.
RECURSIVE uvarint_loop(_, _, _)
uvarint_loop(writer, value, written) ==
    IF value >= 128
    THEN uvarint_loop(Append(writer, (value % 128) + 128),
                      value \div 128, written + 1)
    ELSE [writer |-> Append(writer, value % 128), ret |-> written + 1]

\* Faulty variant: the loop test is > 0x80 instead of >= 0x80.
RECURSIVE uvarint_loop_gt(_, _, _)
uvarint_loop_gt(writer, value, written) ==
    IF value > 128
    THEN uvarint_loop_gt(Append(writer, (value % 128) + 128),
                         value \div 128, written + 1)
    ELSE [writer |-> Append(writer, value % 128), ret |-> written + 1]

write_uvarint_gt(writer, value) == uvarint_loop_gt(writer, value, 0)

\* Faulty variant: loops until the value is exhausted, then writes a terminating
\* zero group.
RECURSIVE uvarint_loop_pad(_, _, _)
uvarint_loop_pad(writer, value, written) ==
    IF value > 0
    THEN uvarint_loop_pad(Append(writer, (value % 128) + 128),
                          value \div 128, written + 1)
    ELSE [writer |-> Append(writer, 0), ret |-> written + 1]

write_uvarint_pad(writer, value) == uvarint_loop_pad(writer, value, 0)

write_uvarint(writer, value) == uvarint_loop(writer, value, 0)

(***************************************************************************)
(* write_varbin_string (lines 42-47).                                      *)
(***************************************************************************)
\* Faulty variant: the prefix is len(value), the character count.
write_varbin_string_chars(writer, value) ==
    LET encoded == utf8_encode(value)
        length == Len(value)
        w == write_uvarint(writer, length).writer
    IN IF length > 0 THEN w \o encoded ELSE w

write_varbin_string(writer, value) ==
    LET encoded == utf8_encode(value)
        length == Len(encoded)
        w == write_uvarint(writer, length).writer
    IN IF length > 0 THEN w \o encoded ELSE w

(***************************************************************************)
(* Unit harness: one call of write_uvarint or of write_varbin_string on a  *)
(* BytesIO that may already hold bytes.                                    *)
(***************************************************************************)
\* Code points of every UTF-8 width, at the edges of each width.
CodePoints == {0, 65, 127, 128, 233, 2047, 2048, 8364, 65535, 65536, 128512,
               1114111}

\* Texts whose UTF-8 length needs a one-byte and a two-byte varint prefix.
LongTexts == {[k \in 1..n |-> c] : n \in {127, 128, 129}, c \in {65, 233}}

Texts == UNION {[1..n -> CodePoints] : n \in 0..MaxTextLen} \cup LongTexts

PriorContents == {<<>>, <<255>>}

\* Values at the edges of the 3-, 4- and 5-byte encodings, up to 2^31 - 1.
LargeValues == {16383, 16384, 16385, 2097151, 2097152, 268435455, 268435456,
                2147483647}

\* An optional value (Python's None or a value) is <<>> or <<value>>.
Nothing == <<>>
Some(x) == <<x>>

InitUnitIdle ==
    /\ t_pc = "idle" /\ t_fn = None /\ t_arg = 0
    /\ t_before = <<>> /\ t_writer = <<>> /\ t_ret = Nothing

\* write_uvarint(writer, value), lines 32-39
CallWriteUvarint ==
    /\ t_pc = "call" /\ t_fn = "write_uvarint"
    /\ LET r == write_uvarint(t_writer, t_arg)
       IN /\ t_writer' = r.writer
          /\ t_ret' = Some(r.ret)
    /\ t_pc' = "returned"
    /\ UNCHANGED <<t_fn, t_arg, t_before, e_vars, now, m_vars>>

\* write_varbin_string(writer, value), lines 42-47
CallWriteVarbinString ==
    /\ t_pc = "call" /\ t_fn = "write_varbin_string"
    /\ t_writer' = write_varbin_string(t_writer, t_arg)
    /\ t_ret' = Nothing
    /\ t_pc' = "returned"
    /\ UNCHANGED <<t_fn, t_arg, t_before, e_vars, now, m_vars>>

(***************************************************************************)
(* gzip.GzipFile(fileobj=compressed_buffer, mode='wb') as used on lines    *)
(* 55-66.  The constructor writes the 10-byte member header, whose MTIME   *)
(* field is int(time.time()) because no mtime argument is passed; write()  *)
(* feeds the deflate compressor, which holds the data until it is flushed; *)
(* close() writes the flushed deflate stream, then CRC32 and ISIZE.        *)
(* The deflate stream is modelled as one stored block (RFC 1951, 3.2.4).   *)
(***************************************************************************)
\* struct.pack("<L", v) for 0 <= v < 2^31
write32u(v) == [k \in 1..4 |-> (v \div Pow(256, k - 1)) % 256]

\* A 32-bit register is kept as two 16-bit halves, [hi, lo].
RECURSIVE xor_bits(_, _, _)
xor_bits(a, b, n) ==
    IF n = 0 THEN 0
    ELSE ((a + b) % 2) + 2 * xor_bits(a \div 2, b \div 2, n - 1)

xor16(a, b) == xor_bits(a, b, 16)

\* Eight steps of the reflected CRC-32 on the register hi:lo: shift right,
\* and xor 0xEDB88320 (the halves 0xEDB8 = 60856 and 0x8320 = 33568) when a
\* 1 bit was shifted out.
RECURSIVE crc_shift(_, _, _)
crc_shift(hi, lo, n) ==
    IF n = 0 THEN [hi |-> hi, lo |-> lo]
    ELSE IF lo % 2 = 1
    THEN crc_shift(xor16(hi \div 2, 60856),
                   xor16((lo \div 2) + (hi % 2) * 32768, 33568), n - 1)
    ELSE crc_shift(hi \div 2, (lo \div 2) + (hi % 2) * 32768, n - 1)

\* The register after bytes first..last of data.  The left half is computed
\* before the right half is entered (TLC evaluates an argument only when
\* it is first used), which keeps the evaluation shallow.
RECURSIVE crc_update(_, _, _, _)
crc_update(c, data, first, last) ==
    IF first > last THEN c
    ELSE IF first = last
    THEN crc_shift(c.hi, xor16(c.lo, data[first]), 8)
    ELSE LET mid == (first + last) \div 2
             left == crc_update(c, data, first, mid)
         IN IF left.lo >= 0 THEN crc_update(left, data, mid + 1, last)
            ELSE left

\* zlib.crc32(data), as the four bytes write32u puts on the stream
crc32_le(data) ==
    LET c == crc_update([hi |-> 65535, lo |-> 65535], data, 1, Len(data))
        hi == 65535 - c.hi
        lo == 65535 - c.lo
    IN <<lo % 256, lo \div 256, hi % 256, hi \div 256>>

\* ID1 ID2 CM FLG MTIME(4, little-endian) XFL OS
gzip_header(mtime) == <<31, 139, 8, 0>> \o write32u(mtime) \o <<2, 255>>

\* compress.flush(): BFINAL=1/BTYPE=00, LEN, NLEN, the literal data
deflate(data) ==
    <<1, Len(data) % 256, Len(data) \div 256,
      255 - (Len(data) % 256), 255 - (Len(data) \div 256)>> \o data

gzip_trailer(data) == crc32_le(data) \o write32u(Len(data))

NoGzip == [state |-> "none", pending |-> <<>>, writes |-> 0]

(***************************************************************************)
(* class ProfileContent (lines 9-29).                                      *)
(***************************************************************************)
PROFILE_TYPE_LOCAL == 0
PROFILE_TYPE_ICLOUD == 1
PROFILE_TYPE_REMOTE == 2
MESSAGE_TYPE_PROFILE_CONTENT == 3

\* ProfileContent.__init__
ProfileContent(name, profile_type, config, remote_path, auto_update, auto_update_interval, last_updated) ==
    [name |-> name, type |-> profile_type, config |-> config,
     remote_path |-> remote_path, auto_update |-> auto_update,
     auto_update_interval |-> auto_update_interval,
     last_updated |-> last_updated]

\* The value of `profile` while no record exists.
NoProfile == ProfileContent(<<>>, -1, <<>>, <<>>, FALSE, 0, 0)

(***************************************************************************)
(* encode_profile_content (lines 49-69), one action per statement.         *)
(***************************************************************************)
InitEncoderIdle ==
    /\ profile = NoProfile /\ pc = "idle"
    /\ buffer = <<>> /\ compressed_buffer = <<>> /\ inner_buffer = <<>>
    /\ gzip_writer = NoGzip
    /\ ret = Nothing /\ prev_ret = Nothing /\ calls = 0

\* Everything outside the encoder's own locals.
e_frame == <<profile, ret, prev_ret, calls, now, t_vars, m_vars>>

\* Faulty variant: the version byte is written before the message type.
WriteHeaderSwapped ==
    /\ pc = "start"
    /\ buffer' = pack_B(1) \o pack_B(MESSAGE_TYPE_PROFILE_CONTENT)
    /\ compressed_buffer' = <<>>
    /\ pc' = "open"
    /\ UNCHANGED <<inner_buffer, gzip_writer, e_frame>>

\* lines 50-53
WriteHeader ==
    /\ pc = "start"
    /\ buffer' = pack_B(MESSAGE_TYPE_PROFILE_CONTENT) \o pack_B(1)
    /\ compressed_buffer' = <<>>
    /\ pc' = "open"
    /\ UNCHANGED <<inner_buffer, gzip_writer, e_frame>>

\* line 55, entering the with block: GzipFile.__init__ writes the header
GzipOpen ==
    /\ pc = "open"
    /\ gzip_writer' = [state |-> "open", pending |-> <<>>, writes |-> 0]
    /\ compressed_buffer' = compressed_buffer \o gzip_header(now)
    /\ pc' = "name"
    /\ UNCHANGED <<buffer, inner_buffer, e_frame>>

\* lines 56-57
WriteName ==
    /\ pc = "name"
    /\ inner_buffer' = write_varbin_string(<<>>, profile.name)
    /\ pc' = "type"
    /\ UNCHANGED <<buffer, compressed_buffer, gzip_writer, e_frame>>

\* line 58
WriteType ==
    /\ pc = "type"
    /\ inner_buffer' = inner_buffer \o pack_i(profile.type)
    /\ pc' = "config"
    /\ UNCHANGED <<buffer, compressed_buffer, gzip_writer, e_frame>>

\* line 59
WriteConfig ==
    /\ pc = "config"
    /\ inner_buffer' = write_varbin_string(inner_buffer, profile.config)
    /\ pc' = "remote_path"
    /\ UNCHANGED <<buffer, compressed_buffer, gzip_writer, e_frame>>

\* Faulty variant: remote_path is written for every variant.
WriteRemotePathAlways ==
    /\ pc = "remote_path"
    /\ inner_buffer' = write_varbin_string(inner_buffer, profile.remote_path)
    /\ pc' = "auto_update"
    /\ UNCHANGED <<buffer, compressed_buffer, gzip_writer, e_frame>>

\* lines 60-61
WriteRemotePath ==
    /\ pc = "remote_path"
    /\ inner_buffer' =
         IF profile.type # PROFILE_TYPE_LOCAL
         THEN write_varbin_string(inner_buffer, profile.remote_path)
         ELSE inner_buffer
    /\ pc' = "auto_update"
    /\ UNCHANGED <<buffer, compressed_buffer, gzip_writer, e_frame>>

\* lines 62-65
WriteAutoUpdate ==
    /\ pc = "auto_update"
    /\ inner_buffer' =
         IF profile.type = PROFILE_TYPE_REMOTE
         THEN inner_buffer \o pack_bool(profile.auto_update)
                           \o pack_i(profile.auto_update_interval)
                           \o pack_q(profile.last_updated)
         ELSE inner_buffer
    /\ pc' = "gzip_write"
    /\ UNCHANGED <<buffer, compressed_buffer, gzip_writer, e_frame>>

\* Faulty variant: the compressed buffer is read back right after the write, while
\* the stream is still open (line 67 indented into the with block).
GzipWriteThenRead ==
    /\ pc = "gzip_write"
    /\ gzip_writer.state = "open"
    /\ gzip_writer' = [gzip_writer EXCEPT
                         !.pending = @ \o inner_buffer, !.writes = @ + 1]
    /\ buffer' = buffer \o compressed_buffer
    /\ pc' = "gzip_close"
    /\ UNCHANGED <<compressed_buffer, inner_buffer, e_frame>>

\* line 66: gzip_writer.write(inner_buffer.getvalue())
GzipWrite ==
    /\ pc = "gzip_write"
    /\ gzip_writer.state = "open"
    /\ gzip_writer' = [gzip_writer EXCEPT
                         !.pending = @ \o inner_buffer, !.writes = @ + 1]
    /\ pc' = "gzip_close"
    /\ UNCHANGED <<buffer, compressed_buffer, inner_buffer, e_frame>>

\* leaving the with block of line 55: GzipFile.close()
GzipClose ==
    /\ pc = "gzip_close"
    /\ compressed_buffer' = compressed_buffer \o deflate(gzip_writer.pending)
                              \o gzip_trailer(gzip_writer.pending)
    /\ gzip_writer' = [gzip_writer EXCEPT !.state = "closed"]
    /\ pc' = "append"
    /\ UNCHANGED <<buffer, inner_buffer, e_frame>>

\* line 67
AppendCompressed ==
    /\ pc = "append"
    /\ buffer' = buffer \o compressed_buffer
    /\ pc' = "return"
    /\ UNCHANGED <<compressed_buffer, inner_buffer, gzip_writer, e_frame>>

\* line 69
Return ==
    /\ pc = "return"
    /\ ret' = Some(buffer)
    /\ pc' = "done"
    /\ UNCHANGED <<profile, prev_ret, calls, buffer, compressed_buffer,
                   inner_buffer, gzip_writer, now, t_vars, m_vars>>

Encode ==
    \/ WriteHeader \/ GzipOpen \/ WriteName \/ WriteType \/ WriteConfig
    \/ WriteRemotePath \/ WriteAutoUpdate \/ GzipWrite \/ GzipClose
    \/ AppendCompressed \/ Return

(***************************************************************************)
(* The command-line tool is idle in the specifications of the functions.   *)
(***************************************************************************)
NoArgs == [name |-> Nothing, config |-> <<>>, type |-> "local",
           remote_path |-> Nothing, remotepath |-> Nothing,
           auto_update |-> FALSE, autoupdate |-> FALSE,
           auto_update_interval |-> 0, autoupdateinterval |-> 0,
           lastupdated |-> 0, output |-> Nothing]

NoLocal == [remote_path |-> <<>>, auto_update |-> FALSE,
            auto_update_interval |-> 0, last_updated |-> 0,
            config_content |-> <<>>, config_file_path |-> Nothing,
            profile_name |-> Nothing, encoded_data |-> <<>>,
            output_path |-> Nothing]

InitMainIdle ==
    /\ m_pc = "idle" /\ args = NoArgs /\ fs = <<>> /\ local = NoLocal
    /\ stdout = <<>> /\ stderr = <<>> /\ exit_code = Nothing

(***************************************************************************)
(* Specification of the two writer functions: one call on each input.     *)
(***************************************************************************)
InitUnit ==
    /\ t_pc = "call"
    /\ \/ t_fn = "write_uvarint" /\ t_arg \in (0..MaxValue) \cup LargeValues
       \/ t_fn = "write_varbin_string" /\ t_arg \in Texts
    /\ t_before \in PriorContents
    /\ t_writer = t_before
    /\ t_ret = Nothing
    /\ InitEncoderIdle /\ now = 0 /\ InitMainIdle

NextUnit == CallWriteUvarint \/ CallWriteVarbinString

SpecUnit == InitUnit /\ [][NextUnit]_vars

(***************************************************************************)
(* Specification of encode_profile_content: a caller encodes one record,  *)
(* and may encode the same record again later, while the clock runs.      *)
(***************************************************************************)
\* "test", "{}" and other sample texts, as code points
TextTest == <<116, 101, 115, 116>>
TextBraces == <<123, 125>>
TextEAcute == <<233>>
TextUrl == <<104, 116, 116, 112, 58, 47, 47, 120>>

\* auto_update, auto_update_interval, last_updated
UpdateSettings == {<<FALSE, 3600, 0>>, <<TRUE, -1, 1700000000>>,
                   <<TRUE, 3600, -1>>}

\* Every variant with every combination of sample field values, also the
\* fields the variant has no use for.
Profiles ==
    {ProfileContent(n, t, c, r, u[1], u[2], u[3]) :
        n \in {TextTest, TextEAcute},
        t \in {PROFILE_TYPE_LOCAL, PROFILE_TYPE_ICLOUD, PROFILE_TYPE_REMOTE},
        c \in {TextBraces, <<>>},
        r \in {<<>>, TextUrl},
        u \in UpdateSettings}

\* int(time.time()) when the first invocation starts
StartTimes == {1793808000}

InitEncode ==
    /\ profile \in Profiles
    /\ pc = "start" /\ calls = 1
    /\ buffer = <<>> /\ compressed_buffer = <<>> /\ inner_buffer = <<>>
    /\ gzip_writer = NoGzip
    /\ ret = Nothing /\ prev_ret = Nothing
    /\ now \in StartTimes
    /\ InitUnitIdle /\ InitMainIdle

\* The wall clock advances by a second.
Tick ==
    /\ \E t0 \in StartTimes : now < t0 + MaxClock
    /\ now' = now + 1
    /\ UNCHANGED <<e_vars, t_vars, m_vars>>

\* The caller invokes encode_profile_content again on the same record; the
\* function's locals are fresh.
Reinvoke ==
    /\ pc = "done" /\ calls < MaxCalls
    /\ prev_ret' = ret
    /\ ret' = Nothing
    /\ calls' = calls + 1
    /\ buffer' = <<>> /\ compressed_buffer' = <<>> /\ inner_buffer' = <<>>
    /\ gzip_writer' = NoGzip
    /\ pc' = "start"
    /\ UNCHANGED <<profile, now, t_vars, m_vars>>

Next == Encode \/ Tick \/ Reinvoke

Spec == InitEncode /\ [][Next]_vars

(***************************************************************************)
(* What a reader of the format does: the definitions the properties are    *)
(* stated with.                                                            *)
(***************************************************************************)
\* The bytes the call under test appended to the writer.
Appended == SubSeq(t_writer, Len(t_before) + 1, Len(t_writer))

\* Continuation bits stripped, 7-bit groups reassembled least significant
\* group first (groups i..Len(b)).
RECURSIVE Reassemble(_, _)
Reassemble(b, i) ==
    IF i > Len(b) THEN 0 ELSE (b[i] % 128) + 128 * Reassemble(b, i + 1)

\* Number of 7-bit groups a value needs (at least one).
RECURSIVE Groups(_)
Groups(v) == IF v < 128 THEN 1 ELSE 1 + Groups(v \div 128)

\* Length of the varint that starts a byte sequence: up to and including the
\* first byte whose high bit is clear.
PrefixLen(b) ==
    IF \E i \in 1..Len(b) : b[i] < 128
    THEN CHOOSE i \in 1..Len(b) : b[i] < 128 /\ \A j \in 1..(i - 1) : b[j] >= 128
    ELSE 0

\* Number of UTF-8 bytes of one code point.
Utf8Width(c) ==
    IF c <= 127 THEN 1 ELSE IF c <= 2047 THEN 2 ELSE IF c <= 65535 THEN 3 ELSE 4

\* Number of UTF-8 bytes of a text: one per character, and one more for
\* each character beyond 7F, beyond 7FF and beyond FFFF.
Utf8Length(s) ==
    Len(s) + Cardinality({i \in 1..Len(s) : Utf8Width(s[i]) >= 2})
           + Cardinality({i \in 1..Len(s) : Utf8Width(s[i]) >= 3})
           + Cardinality({i \in 1..Len(s) : Utf8Width(s[i]) >= 4})

\* A UTF-8 decoder: the positions where a character starts, and the code
\* point that starts at such a position.
Utf8Starts(b) == {i \in 1..Len(b) : b[i] < 128 \/ b[i] >= 192}

Utf8At(b, i) ==
    IF b[i] < 128 THEN b[i]
    ELSE IF b[i] < 224 THEN (b[i] - 192) * 64 + (b[i + 1] - 128)
    ELSE IF b[i] < 240
    THEN (b[i] - 224) * 4096 + (b[i + 1] - 128) * 64 + (b[i + 2] - 128)
    ELSE (b[i] - 240) * 262144 + (b[i + 1] - 128) * 4096
         + (b[i + 2] - 128) * 64 + (b[i + 3] - 128)

Utf8Decode(b) ==
    LET starts == Utf8Starts(b)
        nth(k) == CHOOSE i \in starts : Cardinality({j \in starts : j <= i}) = k
    IN [k \in 1..Cardinality(starts) |-> Utf8At(b, nth(k))]

\* C2: stripping the continuation bits of the bytes write_uvarint wrote and
\* reassembling the 7-bit groups least significant first gives back the
\* value; 0 is written as 00, 127 as 7F and 128 as 80 01.
C2_VarintRoundTrip ==
    (t_pc = "returned" /\ t_fn = "write_uvarint") =>
        /\ Reassemble(Appended, 1) = t_arg
        /\ t_arg = 0 => Appended = <<0>>
        /\ t_arg = 127 => Appended = <<127>>
        /\ t_arg = 128 => Appended = <<128, 1>>
        /\ SubSeq(t_writer, 1, Len(t_before)) = t_before

C2_Witness ==
    /\ t_pc = "returned" /\ t_fn = "write_uvarint"
    /\ t_arg = 128 /\ t_before = <<255>> /\ t_writer = <<255, 128, 1>>

\* C3: write_uvarint writes the minimal sequence: the high bit is set on
\* every byte but the last and clear on the last, the last byte is zero only
\* for the value 0, no shorter sequence of 7-bit groups holds the value, and
\* the function returns the number of bytes it wrote.
C3_VarintMinimal ==
    (t_pc = "returned" /\ t_fn = "write_uvarint") =>
        LET out == Appended
            n == Len(out)
        IN /\ n >= 1
           /\ \A i \in 1..(n - 1) : out[i] >= 128
           /\ out[n] < 128
           /\ t_arg # 0 => out[n] # 0
           /\ n = Groups(t_arg)
           /\ t_ret = Some(n)

C3_Witness ==
    /\ t_pc = "returned" /\ t_fn = "write_uvarint"
    /\ t_arg = 16384 /\ Appended = <<128, 128, 1>> /\ t_ret = Some(3)

\* C4: write_varbin_string writes the varint of the UTF-8 byte length of the
\* text (not of its number of characters), then exactly the UTF-8 bytes of
\* the text and nothing else; for the empty text it writes the byte 00 only.
C4_VarbinString ==
    (t_pc = "returned" /\ t_fn = "write_varbin_string") =>
        LET out == Appended
            p == PrefixLen(out)
            prefix == SubSeq(out, 1, p)
            body == SubSeq(out, p + 1, Len(out))
        IN /\ p >= 1
           /\ Reassemble(prefix, 1) = Utf8Length(t_arg)
           /\ p = Groups(Utf8Length(t_arg))
           /\ Len(body) = Utf8Length(t_arg)
           /\ Utf8Decode(body) = t_arg
           /\ t_arg = <<>> => out = <<0>>
           /\ SubSeq(t_writer, 1, Len(t_before)) = t_before

\* a text of 128 two-byte characters: 256 bytes, varint prefix 80 02
C4_Witness ==
    /\ t_pc = "returned" /\ t_fn = "write_varbin_string"
    /\ Len(t_arg) = 128 /\ t_arg[1] = 233
    /\ SubSeq(Appended, 1, 4) = <<128, 2, 195, 169>>
    /\ Len(Appended) = 258

(***************************************************************************)
(* The payload and the message as the format's description states them.    *)
(***************************************************************************)
\* Unsigned varint of n, least significant 7-bit group first.
RECURSIVE Uleb(_)
Uleb(n) == IF n < 128 THEN <<n>> ELSE <<128 + (n % 128)>> \o Uleb(n \div 128)

LenPrefixed(s) == Uleb(Utf8Length(s)) \o utf8_encode(s)

\* v in n bytes, big-endian, two's complement (v within 32 bits).
BigEndian(v, n) ==
    [k \in 1..n |->
        IF n - k >= 4 THEN (IF v < 0 THEN 255 ELSE 0)
        ELSE (v \div Pow(256, n - k)) % 256]

VariantTag(t) ==
    CASE t = PROFILE_TYPE_LOCAL -> <<0, 0, 0, 0>>
      [] t = PROFILE_TYPE_ICLOUD -> <<0, 0, 0, 1>>
      [] t = PROFILE_TYPE_REMOTE -> <<0, 0, 0, 2>>

ExpectedPayload(p) ==
    LenPrefixed(p.name) \o VariantTag(p.type) \o LenPrefixed(p.config)
    \o (IF p.type # PROFILE_TYPE_LOCAL THEN LenPrefixed(p.remote_path) ELSE <<>>)
    \o (IF p.type = PROFILE_TYPE_REMOTE
        THEN <<IF p.auto_update THEN 1 ELSE 0>>
             \o BigEndian(p.auto_update_interval, 4)
             \o BigEndian(p.last_updated, 8)
        ELSE <<>>)

\* 04 "test" 00 00 00 00 02 "{}"
TestPayload == <<4, 116, 101, 115, 116, 0, 0, 0, 0, 2, 123, 125>>

\* A gzip reader over one member with no optional header fields and stored
\* deflate blocks: the data, provided the member is well formed, its CRC32
\* and ISIZE match and nothing follows the trailer.
Gunzip(b) ==
    LET len == IF Len(b) >= 15 THEN b[12] + 256 * b[13] ELSE 0
        data == SubSeq(b, 16, 15 + len)
        ok == /\ Len(b) = 10 + 5 + len + 8
              /\ SubSeq(b, 1, 4) = <<31, 139, 8, 0>>
              /\ b[11] = 1
              /\ b[14] + 256 * b[15] = 65535 - len
              /\ SubSeq(b, 16 + len, 19 + len) = crc32_le(data)
              /\ SubSeq(b, 20 + len, 23 + len) = write32u(len)
    IN IF ok THEN [ok |-> TRUE, data |-> data] ELSE [ok |-> FALSE, data |-> <<>>]

\* The payload is complete from the statement after line 65 on.
PayloadBuilt == pc \in {"gzip_write", "gzip_close", "append", "return", "done"}

\* C1: for a Local, iCloud or Remote record the payload is exactly name,
\* 4-byte tag, config, then remote_path iff the variant is not Local, then
\* the auto_update byte, the 4-byte interval and the 8-byte last_updated iff
\* the variant is Remote; fields of other variants are omitted, whatever
\* the record holds for them.
C1_PayloadLayout ==
    PayloadBuilt => inner_buffer = ExpectedPayload(profile)

\* a Local record that holds a remote_path and auto_update: both are omitted
C1_Witness ==
    /\ pc = "done"
    /\ profile.type = PROFILE_TYPE_LOCAL
    /\ profile.remote_path = TextUrl /\ profile.auto_update
    /\ profile.name = TextTest /\ profile.config = TextBraces
    /\ inner_buffer = TestPayload

\* C5: the message is 03, 01, then the whole compressed stream and nothing
\* after it; decompressing from offset 2 on yields the record's payload
\* (04 74 65 73 74 00 00 00 00 02 7B 7D for Local "test" "{}").
C5_MessageFraming ==
    pc = "done" =>
        LET m == ret[1]
            z == Gunzip(SubSeq(m, 3, Len(m)))
        IN /\ Len(m) > 2
           /\ m[1] = 3 /\ m[2] = 1
           /\ z.ok
           /\ z.data = ExpectedPayload(profile)
           /\ (/\ profile.type = PROFILE_TYPE_LOCAL
               /\ profile.name = TextTest
               /\ profile.config = TextBraces) => z.data = TestPayload

C5_Witness ==
    /\ pc = "done"
    /\ profile.type = PROFILE_TYPE_LOCAL
    /\ profile.name = TextTest /\ profile.config = TextBraces
    /\ SubSeq(ret[1], 1, 6) = <<3, 1, 31, 139, 8, 0>>
    /\ Gunzip(SubSeq(ret[1], 3, Len(ret[1]))).data = TestPayload

\* C6: the stream is opened, receives the whole payload in one write made
\* after all fields are assembled, and is closed before the compressed
\* buffer is read back and appended to the message.
C6_StreamFinalizedBeforeRead ==
    [][/\ (Len(buffer) >= 2 /\ Len(buffer') > Len(buffer)) =>
            /\ gzip_writer.state = "closed"
            /\ gzip_writer.writes = 1
            /\ gzip_writer.pending = ExpectedPayload(profile)
            /\ Gunzip(compressed_buffer).ok
            /\ buffer' = buffer \o compressed_buffer
       /\ (gzip_writer'.writes > gzip_writer.writes) =>
            /\ gzip_writer.state = "open"
            /\ gzip_writer.writes = 0
            /\ inner_buffer = ExpectedPayload(profile)
            /\ gzip_writer'.pending = inner_buffer
       /\ (gzip_writer'.state = "closed" /\ gzip_writer.state # "closed") =>
            /\ gzip_writer.state = "open"
            /\ gzip_writer.writes = 1
            /\ Len(buffer) = 2
      ]_vars

C6_Witness ==
    /\ pc = "return"
    /\ gzip_writer.state = "closed" /\ gzip_writer.writes = 1
    /\ Len(buffer) = 2 + Len(compressed_buffer)
    /\ Len(compressed_buffer) > 18

\* C7: two invocations on records with equal field values return identical
\* bytes whatever happened in between, and an invocation leaves the record
\* unchanged.
C7_PureFunction ==
    [][/\ profile' = profile
       /\ (pc = "return" /\ pc' = "done" /\ prev_ret # Nothing) =>
            ret' = prev_ret
      ]_vars

(***************************************************************************)
(* Python str and os.path operations used by main.                         *)
(***************************************************************************)
startswith(s, prefix) ==
    Len(s) >= Len(prefix) /\ SubSeq(s, 1, Len(prefix)) = prefix

endswith(s, suffix) ==
    Len(s) >= Len(suffix) /\ SubSeq(s, Len(s) - Len(suffix) + 1, Len(s)) = suffix

\* s.rfind(ch) + 1: the last position of ch in s, 0 when there is none
rfind(s, ch) ==
    IF \E i \in 1..Len(s) : s[i] = ch
    THEN CHOOSE i \in 1..Len(s) : s[i] = ch /\ \A j \in (i + 1)..Len(s) : s[j] # ch
    ELSE 0

\* os.path.basename (posixpath): what follows the last "/"
basename(p) == SubSeq(p, rfind(p, 47) + 1, Len(p))

\* os.path.splitext (genericpath._splitext): split at the last "." of the
\* last component, unless only dots precede it in that component
splitext(p) ==
    LET sep == rfind(p, 47)
        dot == rfind(p, 46)
    IN IF dot > sep /\ \E i \in (sep + 1)..(dot - 1) : p[i] # 46
       THEN <<SubSeq(p, 1, dot - 1), SubSeq(p, dot, Len(p))>>
       ELSE <<p, <<>> >>

\* bytes.hex(): two lower-case hexadecimal digits per byte
hex_digit(d) == IF d < 10 THEN 48 + d ELSE 87 + d
hex(data) ==
    [k \in 1..(2 * Len(data)) |->
        IF k % 2 = 1 THEN hex_digit(data[(k + 1) \div 2] \div 16)
        ELSE hex_digit(data[k \div 2] % 16)]

\* Truth value of an optional str (None and "" are false).
truthy(opt) == opt # Nothing /\ opt[1] # <<>>

\* "./", "/", "~/", ".json", ".bpf"
StrDotSlash == <<46, 47>>
StrSlash == <<47>>
StrTildeSlash == <<126, 47>>
StrDotJson == <<46, 106, 115, 111, 110>>
StrDotBpf == <<46, 98, 112, 102>>

\* line 190: the heuristic that takes --config for a path
looks_like_path(c) ==
    \/ startswith(c, StrDotSlash) \/ startswith(c, StrSlash)
    \/ startswith(c, StrTildeSlash) \/ endswith(c, StrDotJson)

(***************************************************************************)
(* The file system: a function from the paths that exist to their entries. *)
(* kind is "file", "dir" or "denied" (a file the process may not open).    *)
(***************************************************************************)
FileEntry(kind, content) == [kind |-> kind, content |-> content]

\* open(path, "r"): "ok", or the exception raised
open_read(path) ==
    IF path \notin DOMAIN fs THEN "FileNotFoundError"
    ELSE IF fs[path].kind = "denied" THEN "PermissionError"
    ELSE IF fs[path].kind = "dir" THEN "IsADirectoryError"
    ELSE "ok"

\* open(path, "wb"): "ok", or the exception raised
open_write(path) ==
    IF path \notin DOMAIN fs THEN "ok"
    ELSE IF fs[path].kind = "denied" THEN "PermissionError"
    ELSE IF fs[path].kind = "dir" THEN "IsADirectoryError"
    ELSE "ok"

\* the file system after f.write(data) on a file opened with "wb"
written(path, data) ==
    [p \in DOMAIN fs \cup {path} |->
        IF p = path THEN FileEntry("file", data) ELSE fs[p]]

(***************************************************************************)
(* create_local_profile, create_remote_profile, create_icloud_profile      *)
(* (lines 72-101).                                                         *)
(***************************************************************************)
create_local_profile(name, config) ==
    ProfileContent(name, PROFILE_TYPE_LOCAL, config, <<>>, FALSE, 0, 0)

create_remote_profile(name, config, remote_path, auto_update, auto_update_interval, last_updated) ==
    ProfileContent(name, PROFILE_TYPE_REMOTE, config, remote_path,
                   auto_update, auto_update_interval, last_updated)

create_icloud_profile(name, config, remote_path) ==
    ProfileContent(name, PROFILE_TYPE_ICLOUD, config, remote_path, FALSE, 0, 0)

(***************************************************************************)
(* main (lines 104-242), from the parsed arguments on.                     *)
(***************************************************************************)
\* "./a.json", "b.json", "./d/", "o.bin"
PathA == <<46, 47, 97, 46, 106, 115, 111, 110>>
PathB == <<98, 46, 106, 115, 111, 110>>
PathD == <<46, 47, 100, 47>>
PathOut == <<111, 46, 98, 105, 110>>

\* --config values with the file-system entry found at that path, if any
ConfigCases ==
    {<<TextBraces, "missing">>,
     <<PathA, "missing">>, <<PathA, "file">>, <<PathA, "denied">>, <<PathA, "dir">>,
     <<PathB, "missing">>, <<PathB, "file">>,
     <<PathD, "missing">>, <<PathD, "dir">>}

\* --remote-path, --remotepath
RemotePathCases ==
    {<<Nothing, Nothing>>, <<Some(TextUrl), Nothing>>, <<Nothing, Some(TextUrl)>>,
     <<Some(<<>>), Nothing>>}

\* --auto-update, --autoupdate, --auto-update-interval, --autoupdateinterval,
\* --lastupdated
UpdateCases == {<<FALSE, FALSE, 0, 0, 0>>, <<TRUE, FALSE, 60, 0, 5>>,
                <<FALSE, TRUE, 60, 30, 0>>}

\* --output, and the entry found at that path, if any
OutputCases == {<<Nothing, "missing">>, <<Some(PathOut), "missing">>,
                <<Some(PathOut), "denied">>}

entry_at(path, kind) ==
    IF kind = "missing" THEN <<>> ELSE path :> FileEntry(kind, TextBraces)

InitMain ==
    /\ \E n \in {Nothing, Some(<<>>), Some(TextTest)},
          c \in ConfigCases,
          t \in {"local", "remote", "icloud"},
          r \in RemotePathCases,
          u \in UpdateCases,
          o \in OutputCases :
            /\ args = [name |-> n, config |-> c[1], type |-> t,
                       remote_path |-> r[1], remotepath |-> r[2],
                       auto_update |-> u[1], autoupdate |-> u[2],
                       auto_update_interval |-> u[3],
                       autoupdateinterval |-> u[4],
                       lastupdated |-> u[5], output |-> o[1]]
            /\ fs = entry_at(c[1], c[2]) @@ entry_at(PathOut, o[2])
    /\ m_pc = "start" /\ local = NoLocal
    /\ stdout = <<>> /\ stderr = <<>> /\ exit_code = Nothing
    /\ now \in StartTimes
    /\ InitEncoderIdle /\ InitUnitIdle

m_frame == <<args, now, t_vars>>

\* lines 178-181
ResolveAliases ==
    /\ m_pc = "start"
    /\ local' = [local EXCEPT
         !.remote_path =
             IF truthy(args.remote_path) THEN args.remote_path[1]
             ELSE IF truthy(args.remotepath) THEN args.remotepath[1]
             ELSE <<>>,
         !.auto_update = args.auto_update \/ args.autoupdate,
         !.auto_update_interval =
             IF args.autoupdateinterval # 0 THEN args.autoupdateinterval
             ELSE args.auto_update_interval,
         !.last_updated = args.lastupdated]
    /\ m_pc' = "check_remote_path"
    /\ UNCHANGED <<fs, stdout, stderr, exit_code, e_vars, m_frame>>

\* lines 183-185
CheckRemotePath ==
    /\ m_pc = "check_remote_path"
    /\ \/ /\ args.type \in {"remote", "icloud"} /\ local.remote_path = <<>>
          /\ stderr' = Append(stderr, "Error: --remote-path or --remotepath is required for remote and icloud profiles")
          /\ exit_code' = Some(1)
          /\ m_pc' = "exit"
       \/ /\ ~(args.type \in {"remote", "icloud"} /\ local.remote_path = <<>>)
          /\ m_pc' = "read_config"
          /\ UNCHANGED <<stderr, exit_code>>
    /\ UNCHANGED <<fs, local, stdout, e_vars, m_frame>>

\* lines 187-195.  config_file_path is assigned (line 191) before the file
\* is opened (line 192); FileNotFoundError and PermissionError are
\* swallowed, any other OSError ends the process with a traceback.
ReadConfig ==
    /\ m_pc = "read_config"
    /\ \/ /\ ~looks_like_path(args.config)
          /\ local' = [local EXCEPT !.config_content = args.config,
                                    !.config_file_path = Nothing]
          /\ m_pc' = "resolve_name"
          /\ UNCHANGED <<stderr, exit_code>>
       \/ /\ looks_like_path(args.config)
          /\ open_read(args.config) = "ok"
          /\ local' = [local EXCEPT !.config_content = fs[args.config].content,
                                    !.config_file_path = Some(args.config)]
          /\ m_pc' = "resolve_name"
          /\ UNCHANGED <<stderr, exit_code>>
       \/ /\ looks_like_path(args.config)
          /\ open_read(args.config) \in {"FileNotFoundError", "PermissionError"}
          /\ local' = [local EXCEPT !.config_content = args.config,
                                    !.config_file_path = Some(args.config)]
          /\ m_pc' = "resolve_name"
          /\ UNCHANGED <<stderr, exit_code>>
       \/ /\ looks_like_path(args.config)
          /\ open_read(args.config) = "IsADirectoryError"
          /\ local' = [local EXCEPT !.config_content = args.config,
                                    !.config_file_path = Some(args.config)]
          /\ stderr' = Append(stderr, "Traceback (line 192): IsADirectoryError")
          /\ exit_code' = Some(1)
          /\ m_pc' = "exit"
    /\ UNCHANGED <<fs, stdout, e_vars, m_frame>>

\* lines 197-204
ResolveName ==
    /\ m_pc = "resolve_name"
    /\ LET profile_name ==
               IF ~truthy(args.name) /\ truthy(local.config_file_path)
               THEN Some(splitext(basename(local.config_file_path[1]))[1])
               ELSE args.name
       IN /\ local' = [local EXCEPT !.profile_name = profile_name]
          /\ \/ /\ ~truthy(profile_name)
                /\ stderr' = Append(stderr, "Error: --name is required when config is not a file")
                /\ exit_code' = Some(1)
                /\ m_pc' = "exit"
             \/ /\ truthy(profile_name)
                /\ m_pc' = "build_profile"
                /\ UNCHANGED <<stderr, exit_code>>
    /\ UNCHANGED <<fs, stdout, e_vars, m_frame>>

\* lines 206-225: the record is built and encode_profile_content is entered
BuildProfile ==
    /\ m_pc = "build_profile"
    /\ pc = "idle"
    /\ profile' =
         IF args.type = "local"
         THEN create_local_profile(local.profile_name[1], local.config_content)
         ELSE IF args.type = "remote"
         THEN create_remote_profile(local.profile_name[1], local.config_content,
                  local.remote_path, local.auto_update,
                  local.auto_update_interval,
                  IF local.last_updated # 0 THEN local.last_updated ELSE now)
         ELSE create_icloud_profile(local.profile_name[1], local.config_content,
                  local.remote_path)
    /\ pc' = "start"
    /\ calls' = calls + 1
    /\ m_pc' = "encoding"
    /\ UNCHANGED <<buffer, compressed_buffer, inner_buffer, gzip_writer, ret,
                   prev_ret, fs, local, stdout, stderr, exit_code, m_frame>>

\* lines 225-234: encode_profile_content has returned
ChooseOutput ==
    /\ m_pc = "encoding"
    /\ pc = "done"
    /\ local' = [local EXCEPT
         !.encoded_data = ret[1],
         !.output_path =
             IF truthy(args.output) THEN args.output
             ELSE IF truthy(local.config_file_path)
             THEN Some(splitext(local.config_file_path[1])[1] \o StrDotBpf)
             ELSE Nothing]
    /\ m_pc' = "output"
    /\ UNCHANGED <<fs, stdout, stderr, exit_code, e_vars, m_frame>>

\* lines 236-242
WriteOutput ==
    /\ m_pc = "output"
    /\ \/ /\ truthy(local.output_path)
          /\ open_write(local.output_path[1]) = "ok"
          /\ fs' = written(local.output_path[1], local.encoded_data)
          /\ stdout' = stdout \o
                <<[line |-> "Encoded profile saved to:", value |-> local.output_path[1]],
                  [line |-> "Size: bytes", value |-> <<Len(local.encoded_data)>>]>>
          /\ exit_code' = Some(0)
          /\ UNCHANGED stderr
       \/ /\ truthy(local.output_path)
          /\ open_write(local.output_path[1]) # "ok"
          /\ stderr' = Append(stderr, "Traceback (line 237): OSError")
          /\ exit_code' = Some(1)
          /\ UNCHANGED <<fs, stdout>>
       \/ /\ ~truthy(local.output_path)
          /\ stdout' = Append(stdout, [line |-> "hex", value |-> hex(local.encoded_data)])
          /\ exit_code' = Some(0)
          /\ UNCHANGED <<fs, stderr>>
    /\ m_pc' = "exit"
    /\ UNCHANGED <<local, e_vars, m_frame>>

NextMain ==
    \/ ResolveAliases \/ CheckRemotePath \/ ReadConfig \/ ResolveName
    \/ BuildProfile \/ Encode \/ ChooseOutput \/ WriteOutput

SpecMain == InitMain /\ [][NextMain]_vars

(***************************************************************************)
(* The command-line tool's outcomes as its description states them.        *)
(***************************************************************************)
\* The config came from a file: the value was taken for a path and the file
\* was read.
ConfigFromFile ==
    looks_like_path(args.config) /\ open_read(args.config) = "ok"

\* The value was taken for a path and reading it failed with an error the
\* tool swallows.
ConfigReadFailed ==
    /\ looks_like_path(args.config)
    /\ open_read(args.config) \in {"FileNotFoundError", "PermissionError"}

RemotePathMissing ==
    /\ args.type \in {"remote", "icloud"}
    /\ ~truthy(args.remote_path) /\ ~truthy(args.remotepath)

NameMissing == ~truthy(args.name) /\ ~ConfigFromFile

\* Paths of the files that hold the encoded message.
Holders == {p \in DOMAIN fs : fs[p] = FileEntry("file", local.encoded_data)}

HexLines == {i \in 1..Len(stdout) : stdout[i].line = "hex"}

HexValue(c) ==
    IF c \in 48..57 THEN c - 48 ELSE IF c \in 97..102 THEN c - 87 ELSE -1

\* text is the lower-case hexadecimal encoding of data
IsLowerHexOf(text, data) ==
    /\ Len(text) = 2 * Len(data)
    /\ \A k \in 1..Len(data) :
          /\ HexValue(text[2 * k - 1]) >= 0 /\ HexValue(text[2 * k]) >= 0
          /\ 16 * HexValue(text[2 * k - 1]) + HexValue(text[2 * k]) = data[k]

\* C8: when the remote path is missing for remote/icloud, or no name is given
\* and the config did not come from a file, the run ends with exit code 1
\* and a diagnostic on standard error, and writes no file and prints
\* nothing on standard output.
C8_ValidationFailsCleanly ==
    [][(m_pc # "idle" /\ (RemotePathMissing \/ NameMissing)) =>
            /\ fs' = fs
            /\ stdout' = <<>>
            /\ m_pc' = "exit" => (exit_code' = Some(1) /\ stderr' # <<>>)
      ]_vars

\* C9: when --config looks like a path but reading it fails, no error is
\* surfaced for the read, the literal text is the config, and the name is
\* not derived from the path: without --name the run ends with exit code 1
\* and the missing-name diagnostic.
C9_ReadFailureMeansNotAFile ==
    (m_pc = "exit" /\ ConfigReadFailed /\ ~RemotePathMissing) =>
        /\ \A i \in 1..Len(stderr) : stderr[i] # "Traceback (line 192): IsADirectoryError"
        /\ local.config_content = args.config
        /\ ~truthy(args.name) =>
              /\ exit_code = Some(1)
              /\ stderr = <<"Error: --name is required when config is not a file">>

\* C10: a run that passes validation emits the message to exactly one
\* destination: the --output path if given; else, if a file was read, that
\* file's path with its extension replaced; else (literal config, also
\* after a failed read) no file, and the lower-case hex on standard output.
C10_SingleDestination ==
    (m_pc = "exit" /\ exit_code = Some(0)) =>
        IF truthy(args.output)
        THEN Holders = {args.output[1]} /\ HexLines = {}
        ELSE IF ConfigFromFile
        THEN Holders = {splitext(args.config)[1] \o StrDotBpf} /\ HexLines = {}
        ELSE /\ Holders = {}
             /\ Len(stdout) = 1 /\ HexLines = {1}
             /\ IsLowerHexOf(stdout[1].value, local.encoded_data)

====
